---- MODULE Spec2Model ----
(***************************************************************************)
(* Model of src/app.py: a Textual application holding a container of       *)
(* Stopwatch widgets, each with one TimeDisplay (start_time, time, total   *)
(* and a 1/60 s interval timer that is paused or resumed).                 *)
(*                                                                         *)
(* Time is counted in whole clock units; monotonic() is the variable       *)
(* clock, which only the action Advance changes and only upwards.          *)
(*                                                                         *)
(* The actions are the handlers as written; the bounds of the model are    *)
(* conjoined to them in the next-state relations:                          *)
(*   Spec      the application, every handler on every mounted widget      *)
(*   SpecOne   the one Stopwatch of startup over a long stretch of time,   *)
(*             with the observers of its command history                   *)
(*   SpecWide  the application with more widgets while the clock stands    *)
(*   SpecFormat the text watch_time renders, for times in milliseconds     *)
(***************************************************************************)
EXTENDS Integers, Sequences, FiniteSets, TLC

\* ---- bounds of the model -------------------------------------------------
MaxTimers  == 2     \* Spec: at most this many Stopwatch widgets are mounted
MaxClock   == 2     \* Spec: monotonic() ranges over 0..MaxClock
LongClock  == 12    \* SpecOne: monotonic() ranges over 0..LongClock
WideTimers == 4     \* SpecWide: at most this many Stopwatch widgets are mounted
MaxExcess  == 0     \* total is followed up to MaxExcess beyond the clock
FormatSpan == 24    \* SpecFormat: times up to FormatSpan ms after each base

VARIABLES
    clock,      \* value monotonic() returns now
    timers,     \* the Stopwatch widgets in #timers, in mount order
    last,       \* observer: the handler that ran last, and on which widget
    obs,        \* observer (SpecOne): what the commands so far imply for widget 1
    display     \* SpecFormat: a time in ms given to a TimeDisplay, and its text

vars == <<clock, timers, last, obs, display>>

\* ---- TimeDisplay (one record per Stopwatch) ------------------------------

\* A Stopwatch as composed and mounted at instant now: reactive defaults
\* start_time = monotonic(), time = 0.0, total = 0.0; on_mount creates the
\* interval timer with pause=True; the widget has no "started" class.
NewStopwatch(now) ==
    [start_time |-> now, time |-> 0, total |-> 0,
     paused |-> TRUE, started |-> FALSE]

\* update_time as it would be if the tick also banked what it displays.
update_time_banking(td, now) ==
    [td EXCEPT !.time  = td.total + (now - td.start_time),
               !.total = td.total + (now - td.start_time)]

\* TimeDisplay.update_time: self.time = self.total + (monotonic() - self.start_time)
update_time(td, now) ==
    [td EXCEPT !.time = td.total + (now - td.start_time)]

\* TimeDisplay.start: self.start_time = monotonic(); self.update_timer.resume()
start(td, now) ==
    [td EXCEPT !.start_time = now, !.paused = FALSE]

\* stop as it would be with the subtraction the other way round.
stop_reversed(td, now) ==
    [td EXCEPT !.paused = TRUE,
               !.total  = td.total + (td.start_time - now),
               !.time   = td.total + (td.start_time - now)]

\* stop as it would be without its last line, self.time = self.total.
stop_not_showing(td, now) ==
    [td EXCEPT !.paused = TRUE,
               !.total  = td.total + (now - td.start_time)]

\* stop as it would be with "=" written for "+=".
stop_overwriting(td, now) ==
    [td EXCEPT !.paused = TRUE,
               !.total  = now - td.start_time,
               !.time   = now - td.start_time]

\* stop as it would be if it did not bank the running segment.
stop_not_banking(td, now) ==
    [td EXCEPT !.paused = TRUE, !.time = td.total]

\* TimeDisplay.stop: pause the timer; total += monotonic() - start_time; time = total
stop(td, now) ==
    [td EXCEPT !.paused = TRUE,
               !.total  = td.total + (now - td.start_time),
               !.time   = td.total + (now - td.start_time)]

\* reset as it would be if it left the displayed time alone.
reset_total_only(td) ==
    [td EXCEPT !.total = 0]

\* reset as it would be if it also paused the interval timer.
reset_pausing(td) ==
    [td EXCEPT !.total = 0, !.time = 0, !.paused = TRUE]

\* TimeDisplay.reset: self.total = 0; self.time = 0
reset(td) ==
    [td EXCEPT !.total = 0, !.time = 0]

\* ---- TimeDisplay.watch_time: the text of a time ------------------------
\* A time is a whole number of milliseconds. The "f" presentation rounds to
\* the nearest value of the asked precision; a time that lies halfway in
\* decimal goes up or down with its binary value (up: which of the two).

Digit(d) == <<"0", "1", "2", "3", "4", "5", "6", "7", "8", "9">>[d + 1]

\* the decimal digits of n >= 0
RECURSIVE Dec(_)
Dec(n) == IF n < 10 THEN Digit(n) ELSE Dec(n \div 10) \o Digit(n % 10)

\* the "0" flag with a minimum width
RECURSIVE ZeroPad(_, _)
ZeroPad(str, width) ==
    IF Len(str) >= width THEN str ELSE ZeroPad("0" \o str, width)

\* the "," option with ".0f": thousands separators
RECURSIVE Grouped(_)
Grouped(n) ==
    IF n < 1000 THEN Dec(n)
    ELSE Grouped(n \div 1000) \o "," \o ZeroPad(Dec(n % 1000), 3)

\* ".2f" of ms milliseconds, in hundredths of a second
Hundredths(ms, up) ==
    IF ms % 10 > 5 \/ (ms % 10 = 5 /\ up) THEN ms \div 10 + 1 ELSE ms \div 10

Fixed2(cs) == Dec(cs \div 100) \o "." \o ZeroPad(Dec(cs % 100), 2)

\* minutes, seconds = divmod(time, 60); hours, minutes = divmod(minutes, 60)
\* f"{hours:02,.0f}:{minutes:02.0f}:{seconds:05.2f}"
watch_time(time, up) ==
    LET allMinutes == time \div 60000
        seconds    == time % 60000
        hours      == allMinutes \div 60
        minutes    == allMinutes % 60
    IN  ZeroPad(Grouped(hours), 2) \o ":" \o ZeroPad(Dec(minutes), 2) \o ":"
          \o ZeroPad(Fixed2(Hundredths(seconds, up)), 5)

\* ---- observers -----------------------------------------------------------
\* resetAt : {r}, r the instant of the last reset made while running; {} once
\*           the widget is started or stopped again
\* fresh   : the widget has only seen start when stopped and stop when running
\* segs    : sum of the durations of its completed run segments (while fresh)
\* seg0    : {s}, s the instant its current run segment began (while fresh
\*           and running); {} otherwise
\* stage   : 1 after a stop of the running widget, 2 after a start at that
\*           same instant, 3 after a tick at that same instant; 0 otherwise
\* val, at : total + (now - start_time) just before that stop, and {its instant}
NewObs ==
    [resetAt |-> {}, fresh |-> TRUE, segs |-> 0, seg0 |-> {},
     stage |-> 0, val |-> 0, at |-> {}]

Instant(s) == CHOOSE x \in s : TRUE

NoChain(o) == [o EXCEPT !.stage = 0, !.val = 0, !.at = {}]

NotFresh(o) == [o EXCEPT !.fresh = FALSE, !.segs = 0, !.seg0 = {}]

ObsStart(o, td, now) ==
    LET a == IF o.fresh /\ td.paused
             THEN [o EXCEPT !.seg0 = {now}] ELSE NotFresh(o)
        b == IF o.stage = 1 /\ o.at = {now}
             THEN [a EXCEPT !.stage = 2] ELSE NoChain(a)
    IN  [b EXCEPT !.resetAt = {}]

ObsStop(o, td, now) ==
    LET a == IF o.fresh /\ ~td.paused
             THEN [o EXCEPT !.segs = o.segs + (now - Instant(o.seg0)),
                            !.seg0 = {}]
             ELSE NotFresh(o)
        b == IF ~td.paused
             THEN [a EXCEPT !.stage = 1,
                            !.val = td.total + (now - td.start_time),
                            !.at = {now}]
             ELSE NoChain(a)
    IN  [b EXCEPT !.resetAt = {}]

ObsReset(o, td, now) ==
    [NoChain(NotFresh(o)) EXCEPT !.resetAt = IF td.paused THEN {} ELSE {now}]

ObsTick(o, now) ==
    IF o.stage \in {2, 3} /\ o.at = {now}
    THEN [o EXCEPT !.stage = 3] ELSE NoChain(o)

\* ---- actions -------------------------------------------------------------
Idx == 1..Len(timers)

\* StopwatchApp.compose: one Stopwatch in the container at startup.
Init ==
    /\ clock = 0
    /\ timers = <<NewStopwatch(0)>>
    /\ last = [op |-> "init", i |-> 0]
    /\ obs = NewObs
    /\ display = [ms |-> 0, text |-> "00:00:00.00"]

\* monotonic() moves forward between two handlers.
Advance ==
    /\ clock' = clock + 1
    /\ last' = [op |-> "advance", i |-> 0]
    /\ UNCHANGED timers

\* Stopwatch.on_button_pressed, case "start"
PressStart(i) ==
    /\ timers' = [timers EXCEPT ![i] =
                    [start(timers[i], clock) EXCEPT !.started = TRUE]]
    /\ last' = [op |-> "start", i |-> i]
    /\ UNCHANGED clock

\* The stop button as it would be without self.remove_class("started").
PressStop_keeping_class(i) ==
    /\ timers' = [timers EXCEPT ![i] = stop(timers[i], clock)]
    /\ last' = [op |-> "stop", i |-> i]
    /\ UNCHANGED clock

\* Stopwatch.on_button_pressed, case "stop"
PressStop(i) ==
    /\ timers' = [timers EXCEPT ![i] =
                    [stop(timers[i], clock) EXCEPT !.started = FALSE]]
    /\ last' = [op |-> "stop", i |-> i]
    /\ UNCHANGED clock

\* The reset button as it would be if the handler queried every TimeDisplay
\* of the app instead of its own.
PressReset_everyone(i) ==
    /\ timers' = [j \in 1..Len(timers) |-> reset(timers[j])]
    /\ last' = [op |-> "reset", i |-> i]
    /\ UNCHANGED clock

\* Stopwatch.on_button_pressed, case "reset"
PressReset(i) ==
    /\ timers' = [timers EXCEPT ![i] = reset(timers[i])]
    /\ last' = [op |-> "reset", i |-> i]
    /\ UNCHANGED clock

\* The interval timer of widget i fires (only while it is not paused).
Tick(i) ==
    /\ ~timers[i].paused
    /\ timers' = [timers EXCEPT ![i] = update_time(timers[i], clock)]
    /\ last' = [op |-> "tick", i |-> i]
    /\ UNCHANGED clock

\* add as it would be if the new widget were mounted before the others.
action_add_stopwatch_first ==
    /\ timers' = <<NewStopwatch(clock)>> \o timers
    /\ last' = [op |-> "add", i |-> 0]
    /\ UNCHANGED clock

\* StopwatchApp.action_add_stopwatch
action_add_stopwatch ==
    /\ timers' = Append(timers, NewStopwatch(clock))
    /\ last' = [op |-> "add", i |-> 0]
    /\ UNCHANGED clock

\* StopwatchApp.action_remove_all_stopwatches
action_remove_all_stopwatches ==
    /\ timers' = <<>>
    /\ last' = [op |-> "remove_all", i |-> 0]
    /\ UNCHANGED clock

\* remove-last as it would be without "if timers": last() on an empty query
\* raises, and the handler does not complete.
action_remove_stopwatch_unguarded ==
    /\ Len(timers) > 0
    /\ timers' = SubSeq(timers, 1, Len(timers) - 1)
    /\ last' = [op |-> "remove", i |-> 0]
    /\ UNCHANGED clock

\* remove-last as it would be with timers.first() for timers.last().
action_remove_stopwatch_first ==
    /\ timers' = IF Len(timers) > 0 THEN Tail(timers) ELSE timers
    /\ last' = [op |-> "remove", i |-> 0]
    /\ UNCHANGED clock

\* remove-last as it would be with timers.remove() for timers.last().remove().
action_remove_stopwatch_all ==
    /\ timers' = <<>>
    /\ last' = [op |-> "remove", i |-> 0]
    /\ UNCHANGED clock

\* StopwatchApp.action_remove_stopwatch
action_remove_stopwatch ==
    /\ timers' = IF Len(timers) > 0
                 THEN SubSeq(timers, 1, Len(timers) - 1)
                 ELSE timers
    /\ last' = [op |-> "remove", i |-> 0]
    /\ UNCHANGED clock

\* reset-all as it would be if it skipped the running stopwatches.
action_reset_all_stopwatches_stopped_only ==
    /\ timers' = [j \in 1..Len(timers) |->
                    IF timers[j].paused THEN reset(timers[j]) ELSE timers[j]]
    /\ last' = [op |-> "reset_all", i |-> 0]
    /\ UNCHANGED clock

\* StopwatchApp.action_reset_all_stopwatches
action_reset_all_stopwatches ==
    /\ timers' = [j \in Idx |-> reset(timers[j])]
    /\ last' = [op |-> "reset_all", i |-> 0]
    /\ UNCHANGED clock

\* Bound on stop: the total it banks stays within MaxExcess of the clock.
Capped(i) ==
    timers[i].total + (clock - timers[i].start_time) <= clock + MaxExcess

\* ---- the application: every handler, on every mounted widget -------------
Next ==
    \/ clock < MaxClock /\ Advance /\ UNCHANGED <<obs, display>>
    \/ \E i \in Idx : PressStart(i) /\ UNCHANGED <<obs, display>>
    \/ \E i \in Idx : Capped(i) /\ PressStop(i) /\ UNCHANGED <<obs, display>>
    \/ \E i \in Idx : PressReset(i) /\ UNCHANGED <<obs, display>>
    \/ \E i \in Idx : Tick(i) /\ UNCHANGED <<obs, display>>
    \/ Len(timers) < MaxTimers /\ action_add_stopwatch /\ UNCHANGED <<obs, display>>
    \/ action_remove_all_stopwatches /\ UNCHANGED <<obs, display>>
    \/ action_remove_stopwatch /\ UNCHANGED <<obs, display>>
    \/ action_reset_all_stopwatches /\ UNCHANGED <<obs, display>>

Spec == Init /\ [][Next]_vars

\* ---- one stopwatch over a long stretch of time, with its observers -------
NextOne ==
    \/ clock < LongClock /\ Advance /\ obs' = NoChain(obs)
         /\ UNCHANGED display
    \/ PressStart(1) /\ obs' = ObsStart(obs, timers[1], clock)
         /\ UNCHANGED display
    \/ Capped(1) /\ PressStop(1) /\ obs' = ObsStop(obs, timers[1], clock)
         /\ UNCHANGED display
    \/ PressReset(1) /\ obs' = ObsReset(obs, timers[1], clock)
         /\ UNCHANGED display
    \/ Tick(1) /\ obs' = ObsTick(obs, clock)
         /\ UNCHANGED display

SpecOne == Init /\ [][NextOne]_vars

\* ---- more widgets, while the clock stands --------------------------------
NextWide ==
    \/ \E i \in Idx : PressStart(i) /\ UNCHANGED <<obs, display>>
    \/ \E i \in Idx : PressStop(i) /\ UNCHANGED <<obs, display>>
    \/ \E i \in Idx : PressReset(i) /\ UNCHANGED <<obs, display>>
    \/ \E i \in Idx : Tick(i) /\ UNCHANGED <<obs, display>>
    \/ Len(timers) < WideTimers /\ action_add_stopwatch /\ UNCHANGED <<obs, display>>
    \/ action_remove_all_stopwatches /\ UNCHANGED <<obs, display>>
    \/ action_remove_stopwatch /\ UNCHANGED <<obs, display>>
    \/ action_reset_all_stopwatches /\ UNCHANGED <<obs, display>>

SpecWide == Init /\ [][NextWide]_vars

\* ---- the text of one TimeDisplay, for times in milliseconds --------------
\* around 0 s, 1 min, 1 h, 1 h 2 min 5.5 s and 100 h
FormatBases == {0, 59990, 3599990, 3725490, 359999990}

FormatTimes == {b + d : b \in FormatBases, d \in 0..FormatSpan}

\* The reactive attribute time is given the value t: watch_time updates the text.
TimeChanged(t, up) ==
    /\ display' = [ms |-> t, text |-> watch_time(t, up)]
    /\ last' = [op |-> "watch", i |-> 0]
    /\ UNCHANGED <<clock, timers, obs>>

NextFormat ==
    \E t \in FormatTimes, up \in BOOLEAN : TimeChanged(t, up)

SpecFormat == Init /\ [][NextFormat]_vars

TypeOK ==
    /\ clock \in 0..LongClock
    /\ Len(timers) <= WideTimers
    /\ \A j \in Idx : /\ timers[j].start_time \in 0..clock
                      /\ timers[j].total \in 0..(clock + MaxExcess)
                      /\ timers[j].started = ~timers[j].paused

\* ---- claims --------------------------------------------------------------
Running(j) == ~timers[j].paused

\* C1: start() on a tracker that is already running is a no-op: it leaves
\* total, the running flag and the segment start instant as they were.
C1_StartWhileRunningIsNoOp ==
    [][\A i \in Idx :
         (last'.op = "start" /\ last'.i = i /\ Running(i))
         => /\ timers'[i].total = timers[i].total
            /\ timers'[i].paused = timers[i].paused
            /\ timers'[i].start_time = timers[i].start_time]_vars

\* C2: stop() on a tracker that is not running is a no-op: total, the
\* running flag and the displayed time are unchanged, however far the clock
\* has moved.
C2_StopWhileStoppedIsNoOp ==
    [][\A i \in Idx :
         (last'.op = "stop" /\ last'.i = i /\ ~Running(i))
         => /\ timers'[i].total = timers[i].total
            /\ timers'[i].paused = timers[i].paused
            /\ timers'[i].time = timers[i].time]_vars

\* C3: after reset() at instant r on a running tracker, every tick at a
\* later instant t (still running, no start or stop in between) displays
\* t - r, and a following stop() at instant s banks total = s - r.
C3_ResetWhileRunningRestartsFromZero ==
    [][\A r \in obs.resetAt :
         /\ last'.op = "tick" => timers'[1].time = clock' - r
         /\ last'.op = "stop" => timers'[1].total = clock' - r]_vars

\* C4: in the state right after reset() on a tracker, its displayed time
\* and its total are both 0, whatever they were before.
C4_ResetZeroes ==
    \A i \in Idx :
        (last.op = "reset" /\ last.i = i)
        => (timers[i].time = 0 /\ timers[i].total = 0)

\* C4 witness: reset has just acted on a running tracker whose segment
\* began before now.
C4_Witness ==
    \E i \in Idx :
        /\ last.op = "reset" /\ last.i = i
        /\ Running(i)
        /\ timers[i].start_time < clock

\* C5: on a fresh tracker driven only by start when stopped and stop when
\* running, total is the sum of the completed run segments; the time shown
\* while stopped is that sum, and the time a tick computes while running is
\* that sum plus the time since the last start.
C5_AlternatingStartStopSumsSegments ==
    obs.fresh
    => /\ timers[1].total = obs.segs
       /\ ~Running(1) => timers[1].time = obs.segs
       /\ Running(1) =>
            /\ obs.seg0 # {}
            /\ \A s \in obs.seg0 :
                 /\ update_time(timers[1], clock).time = obs.segs + (clock - s)
                 /\ last.op = "tick" => timers[1].time = obs.segs + (clock - s)

\* C5 witness: start at 0, stop at 3, start at 10, tick at 12 shows 5.
C5_Witness ==
    /\ obs.fresh
    /\ last.op = "tick"
    /\ clock = 12
    /\ obs.segs = 3
    /\ obs.seg0 = {10}
    /\ timers[1].time = 5

\* C6: the displayed time of a tracker never decreases across a start, stop
\* or tick step on it.
C6_TimeNeverDecreasesWithoutReset ==
    [][\A i \in Idx :
         (last'.op \in {"start", "stop", "tick"} /\ last'.i = i)
         => timers'[i].time >= timers[i].time]_vars

\* C7: for a running tracker, stop() then start() then a tick, all at the
\* same instant, display the value total + (now - start_time) it had at
\* that instant before the stop.
C7_StopStartSameInstantKeepsElapsed ==
    obs.stage = 3 => timers[1].time = obs.val

\* C7 witness: the three steps have happened at one instant on a tracker
\* that had banked time and a running segment of positive length.
C7_Witness ==
    /\ obs.stage = 3
    /\ obs.at = {clock}
    /\ obs.val >= 3
    /\ timers[1].time = obs.val
    /\ timers[1].start_time = clock

\* C8: a tick changes nothing but the displayed time of its own tracker:
\* total, running flag, segment start and class of every tracker, every
\* other tracker as a whole, and the collection stay as they were.
C8_TickIsDisplayOnly ==
    [][last'.op = "tick"
         => /\ Len(timers') = Len(timers)
            /\ clock' = clock
            /\ \A j \in Idx :
                 /\ timers'[j].total = timers[j].total
                 /\ timers'[j].paused = timers[j].paused
                 /\ timers'[j].start_time = timers[j].start_time
                 /\ timers'[j].started = timers[j].started
                 /\ j # last'.i => timers'[j] = timers[j]]_vars

\* C8 witness: a tick has just shown a positive time on one of two running
\* trackers.
C8_Witness ==
    /\ last.op = "tick"
    /\ Len(timers) = 2
    /\ timers[last.i].time > 0
    /\ \A j \in Idx : Running(j)

\* C9: a tracker is Stopped (timer paused) when created, at startup or by
\* add; start() leaves it Running, stop() leaves it Stopped; reset(),
\* reset-all and ticks leave every tracker Running or Stopped as it was.
C9_TwoStateMachine ==
    [][/\ last.op = "init" => \A j \in Idx : ~Running(j)
       /\ last'.op = "add" => timers'[Len(timers')].paused
       /\ last'.op = "start" => ~timers'[last'.i].paused
       /\ last'.op = "stop" => timers'[last'.i].paused
       /\ last'.op \in {"reset", "reset_all", "tick"}
            => /\ Len(timers') = Len(timers)
               /\ \A j \in Idx : timers'[j].paused = timers[j].paused]_vars

\* C9 witness: reset-all has just acted on a running and a stopped tracker,
\* and the one is still running, the other still stopped.
C9_Witness ==
    /\ last.op = "reset_all"
    /\ Len(timers) = 2
    /\ Running(1)
    /\ ~Running(2)

\* C10: the collection has 1 widget at startup; add makes it one larger,
\* remove-last one smaller when non-empty and leaves it empty otherwise,
\* remove-all empties it; start, stop, reset, reset-all and tick leave its
\* size alone.
C10_SizeFollowsCounter ==
    [][/\ last.op = "init" => Len(timers) = 1
       /\ last'.op = "add" => Len(timers') = Len(timers) + 1
       /\ last'.op = "remove"
            => Len(timers') = IF Len(timers) > 0 THEN Len(timers) - 1 ELSE 0
       /\ last'.op = "remove_all" => Len(timers') = 0
       /\ last'.op \in {"start", "stop", "reset", "reset_all", "tick"}
            => Len(timers') = Len(timers)]_vars

\* C10 witness: remove-last has just taken a collection of 3 widgets to 2.
C10_Witness ==
    /\ last.op = "remove"
    /\ Len(timers) = 2

\* C11: add is enabled in every state; it makes the collection one longer,
\* the new widget last, with total = 0, time = 0 and its timer paused, and
\* leaves every widget that was there in its place and as it was.
C11_AddAppendsFreshTracker ==
    /\ [](ENABLED action_add_stopwatch)
    /\ [][last'.op = "add"
            => /\ Len(timers') = Len(timers) + 1
               /\ timers'[Len(timers')].total = 0
               /\ timers'[Len(timers')].time = 0
               /\ timers'[Len(timers')].paused
               /\ \A j \in Idx : timers'[j] = timers[j]]_vars

\* C11 witness: add has just put a stopped widget behind a running one that
\* shows time.
C11_Witness ==
    /\ last.op = "add"
    /\ Len(timers) = 2
    /\ Running(1)
    /\ timers[1].time > 0
    /\ ~Running(2)

\* C12: remove-last on a non-empty collection makes it one shorter and
\* leaves every widget but the last in its place and as it was, whether the
\* last was running or not; remove-all leaves no widget.
C12_RemoveLastRemovesOnlyLast ==
    [][/\ (last'.op = "remove" /\ Len(timers) > 0)
            => /\ Len(timers') = Len(timers) - 1
               /\ \A j \in 1..Len(timers') : timers'[j] = timers[j]
       /\ last'.op = "remove_all" => timers' = <<>>]_vars

\* C12 witness: remove-last has just left the first of two widgets, which
\* is running and shows time, alone in the collection.
C12_Witness ==
    /\ last.op = "remove"
    /\ Len(timers) = 1
    /\ Running(1)
    /\ timers[1].time > 0
    /\ timers[1].start_time < clock

\* C13: reset-all leaves every tracker, running or stopped, with total = 0
\* and time = 0, each as running or stopped as it was, and the collection
\* with the same widgets in the same order.
C13_ResetAllResetsEveryTracker ==
    [][last'.op = "reset_all"
         => /\ Len(timers') = Len(timers)
            /\ \A j \in Idx :
                 /\ timers'[j].total = 0
                 /\ timers'[j].time = 0
                 /\ timers'[j].paused = timers[j].paused
                 /\ timers'[j].started = timers[j].started
                 /\ timers'[j].start_time = timers[j].start_time]_vars

\* C13 witness: reset-all has just acted on a stopped tracker and on a
\* running one whose segment began before now.
C13_Witness ==
    /\ last.op = "reset_all"
    /\ Len(timers) = 2
    /\ ~Running(1)
    /\ Running(2)
    /\ timers[2].start_time < clock
    /\ timers[2].time = 0

\* C14: a start, stop or reset press on one stopwatch, and a tick of it,
\* leave every other stopwatch of the collection exactly as it was (total,
\* segment start, running flag, displayed time), and the collection too.
C14_TrackersAreIndependent ==
    [][\A i \in Idx :
         (last'.op \in {"start", "stop", "reset", "tick"} /\ last'.i = i)
         => /\ Len(timers') = Len(timers)
            /\ \A j \in Idx \ {i} : timers'[j] = timers[j]]_vars

\* C14 witness: reset has just been pressed on the first stopwatch while
\* the second is running with banked time.
C14_Witness ==
    /\ last.op = "reset"
    /\ last.i = 1
    /\ Len(timers) = 2
    /\ Running(2)
    /\ timers[2].total > 0

\* C15: every command can be taken in every state: add, remove-last,
\* remove-all and reset-all always, start, stop and reset on every mounted
\* stopwatch; on an empty collection remove-last, remove-all and reset-all
\* leave the collection and the clock as they were.
C15_EveryCommandIsTotal ==
    /\ [](/\ ENABLED action_add_stopwatch
          /\ ENABLED action_remove_stopwatch
          /\ ENABLED action_remove_all_stopwatches
          /\ ENABLED action_reset_all_stopwatches
          /\ \A i \in Idx : /\ ENABLED PressStart(i)
                            /\ ENABLED PressStop(i)
                            /\ ENABLED PressReset(i))
    /\ [][(Len(timers) = 0
            /\ last'.op \in {"remove", "remove_all", "reset_all"})
           => (timers' = timers /\ clock' = clock)]_vars

\* C15 witness: reset-all has just run on an empty collection, some time
\* after startup.
C15_Witness ==
    /\ last.op = "reset_all"
    /\ Len(timers) = 0
    /\ clock > 0

\* C17: in every reachable state every tracker's total is >= 0 and its
\* displayed time is >= 0.
C17_TimesAreNonNegative ==
    \A j \in Idx : timers[j].total >= 0 /\ timers[j].time >= 0

\* C17 witness: stop has just banked two units on the only tracker.
C17_Witness ==
    /\ last.op = "stop"
    /\ Len(timers) = 1
    /\ timers[1].total >= 2

\* C18: in every reachable state a stopped tracker (timer paused) displays
\* exactly its total.
C18_StoppedShowsTotal ==
    \A j \in Idx : timers[j].paused => timers[j].time = timers[j].total

\* C18 witness: two stopped trackers show their different banked totals.
C18_Witness ==
    /\ last.op = "stop"
    /\ Len(timers) = 2
    /\ ~Running(1) /\ ~Running(2)
    /\ timers[1].time = 1
    /\ timers[2].time = 2

\* C19: in every reachable state a Stopwatch has the "started" class
\* exactly when its TimeDisplay's interval timer is resumed.
C19_StartedClassIffRunning ==
    \A j \in Idx : timers[j].started <=> ~timers[j].paused

\* C19 witness: stop has just been pressed on the second stopwatch, which
\* lost the class, while the first keeps it and runs on.
C19_Witness ==
    /\ last.op = "stop"
    /\ last.i = 2
    /\ timers[1].started /\ Running(1)
    /\ ~timers[2].started /\ ~Running(2)

\* C16: the text of a time of t milliseconds is HH:MM:SS.ss with HH the
\* whole hours of t in at least two digits, MM the whole minutes of t
\* modulo 60 in two digits, 00..59, and SS.ss the seconds of t modulo 60
\* to two decimals, 00.00..59.99.
C16_RendersHoursMinutesSeconds ==
    last.op = "watch"
    => \E cs \in 0..5999 :
         /\ 10 * cs - (display.ms % 60000) < 10
         /\ (display.ms % 60000) - 10 * cs < 10
         /\ display.text =
              ZeroPad(Dec(display.ms \div 3600000), 2) \o ":"
                \o ZeroPad(Dec((display.ms \div 60000) % 60), 2) \o ":"
                \o ZeroPad(Dec(cs \div 100), 2) \o "."
                \o ZeroPad(Dec(cs % 100), 2)
====
